---- MODULE Spec2Model ----
(***************************************************************************)
(* ts-ast: a TypeScript project summariser (src/index.ts).                 *)
(*                                                                         *)
(* A JavaScript string is modelled as a sequence of one-character strings, *)
(* so that endsWith, indexOf, slice, split and replace act on characters   *)
(* as they do in the source.  An optional value (T | null | undefined) is  *)
(* a sequence of length 0 (absent) or 1 (present).                         *)
(***************************************************************************)
EXTENDS Integers, Sequences, FiniteSets, TLC

VARIABLES
  world,          \* the command line and what the collaborators answer (fixed)
  pc,             \* main's position: start, walk, returned, done, exited
  stack,          \* the activations of parseTsProject, the innermost last
  alreadyParsed,  \* the set parseTsProject threads through the walk
  ret,            \* what the outermost parseTsProject returned
  stdout,         \* the documents written to standard output
  created,        \* history: the project directories given a program node
  pruned,         \* history: the calls that returned null
  inserted        \* history: the files handed to insertFileNode

vars == <<world, pc, stack, alreadyParsed, ret, stdout, created, pruned, inserted>>

---------------------------------------------------------------------------
(* JavaScript strings and optional values                                  *)

None == <<>>

Some(v) == <<v>>

\* LET x == v IN Body(x), with v computed once and before Body, as the value
\* of a const declaration is computed before the statements that read it.
Let(v, Body(_)) == CHOOSE r \in {Body(x) : x \in {v}} : TRUE

\* Truthiness of a string | null | undefined: null, undefined and '' are falsy.
TruthyStr(opt) == opt # None /\ opt[1] # <<>>

\* Truthiness of an object | null (arrays and tree nodes): only null is falsy.
TruthyObj(opt) == opt # None

\* String.prototype.slice(a, b) with 0 <= a, b: characters a .. b-1.
Slice(s, a, b) == IF b <= a THEN <<>> ELSE SubSeq(s, a + 1, IF b > Len(s) THEN Len(s) ELSE b)

\* Whether pat occurs in s at the 0-based position i.
MatchAt(s, pat, i) ==
  /\ i + Len(pat) <= Len(s)
  /\ \A k \in 1..Len(pat) : s[i + k] = pat[k]

\* String.prototype.indexOf(pat): the first 0-based position, or -1.
IndexOf(s, pat) ==
  Let({i \in 0..Len(s) : MatchAt(s, pat, i)},
      LAMBDA hits : IF hits = {} THEN -1 ELSE CHOOSE i \in hits : \A j \in hits : i <= j)

\* String.prototype.endsWith(pat).
EndsWith(s, pat) == Len(pat) <= Len(s) /\ MatchAt(s, pat, Len(s) - Len(pat))

\* String.prototype.replace(pat, rep) with a string pattern: the first
\* occurrence only, wherever it is.
Replace(s, pat, rep) ==
  Let(IndexOf(s, pat),
      LAMBDA i : IF i < 0 THEN s
                 ELSE Slice(s, 0, i) \o rep \o Slice(s, i + Len(pat), Len(s)))

\* String.prototype.split('/'): always at least one segment.
RECURSIVE Split(_)
Split(s) ==
  Let(IndexOf(s, <<"/">>),
      LAMBDA i : IF i < 0 THEN <<s>>
                 ELSE <<Slice(s, 0, i)>> \o Let(Slice(s, i + 1, Len(s)), LAMBDA rest : Split(rest)))

\* Array.prototype.join('/').
RECURSIVE Join(_)
Join(segs) ==
  IF segs = <<>> THEN <<>>
  ELSE IF Len(segs) = 1 THEN segs[1]
  ELSE segs[1] \o <<"/">> \o Join(Tail(segs))

\* The decimal digits of a natural number, as a string.
Digit(d) == <<"0", "1", "2", "3", "4", "5", "6", "7", "8", "9">>[d + 1]

RECURSIVE Decimal(_)
Decimal(n) == IF n < 10 THEN <<Digit(n)>> ELSE Decimal(n \div 10) \o <<Digit(n % 10)>>

\* The concatenation of the characters of s into one label.
RECURSIVE Flat(_)
Flat(s) == IF s = <<>> THEN "" ELSE s[1] \o Flat(Tail(s))

---------------------------------------------------------------------------
(* Syntax kinds and the fixed sets (src/index.ts:10-50)                    *)

\* The members of ts.SyntaxKind the program meets, in the enum's order.  A
\* node's kind is the member's number (here its position in this excerpt)
\* and SyntaxKind[k] is the member's name, as with a TypeScript enum.
SyntaxKind ==
  << "EndOfFileToken", "StringLiteral", "Identifier", "DefaultKeyword",
     "ExportKeyword", "DeclareKeyword", "TypeParameter", "Decorator",
     "PropertySignature", "PropertyDeclaration", "MethodSignature",
     "MethodDeclaration", "Constructor", "CallSignature", "IndexSignature",
     "CallExpression", "FunctionExpression", "ArrowFunction", "Block",
     "VariableStatement", "ExpressionStatement", "IfStatement",
     "WhileStatement", "ForStatement", "ForInStatement", "ForOfStatement",
     "FunctionDeclaration", "ClassDeclaration", "InterfaceDeclaration",
     "TypeAliasDeclaration", "ModuleDeclaration", "ModuleBlock",
     "ImportDeclaration", "ExportAssignment", "HeritageClause", "SourceFile" >>

\* The number of each member, by name.
SyntaxKindNumber ==
  [name \in {SyntaxKind[k] : k \in 1..Len(SyntaxKind)} |->
     CHOOSE k \in 1..Len(SyntaxKind) : SyntaxKind[k] = name]

\* ts.SyntaxKind.<name>: the number of the member.
SK(name) == SyntaxKindNumber[name]

TSCONFIG_FILENAME ==
  <<"t", "s", "c", "o", "n", "f", "i", "g", ".", "j", "s", "o", "n">>

\* The text the regular expression /\/node_modules\// looks for.
EXCLUDED_FILEPATHS ==
  <<"/", "n", "o", "d", "e", "_", "m", "o", "d", "u", "l", "e", "s", "/">>

BATCH_FILES == 256

EXCLUDED_TSNODES ==
  { SK("EndOfFileToken"), SK("ImportDeclaration"), SK("TypeAliasDeclaration"),
    SK("Decorator"), SK("Identifier"), SK("IndexSignature"),
    SK("ExportKeyword"), SK("DefaultKeyword"), SK("HeritageClause"),
    SK("PropertyDeclaration"), SK("DeclareKeyword"), SK("PropertySignature"),
    SK("TypeParameter"), SK("ExportAssignment") }

COMPOSITE_TSNODES ==
  { SK("ModuleDeclaration"), SK("ModuleBlock"), SK("ClassDeclaration"),
    SK("InterfaceDeclaration") }

EXTRA_COMPOSITE_NODES ==
  { SK("WhileStatement"), SK("ForInStatement"), SK("ForOfStatement"),
    SK("ForStatement"), SK("ExpressionStatement"), SK("CallExpression"),
    SK("FunctionExpression"), SK("ArrowFunction"), SK("FunctionDeclaration"),
    SK("Block") }

DEFAULT_COMPILER_OPTIONS == [lib |-> <<"es2017">>, allowJs |-> TRUE, noImplicitAny |-> FALSE]

\* The declared values of the type NodeType.
NodeType ==
  { "program", "dir", "file", "module", "module-block", "class", "interface",
    "constructor", "method", "function", "text" }

---------------------------------------------------------------------------
(* Syntax nodes: [kind, name, len, kids].  name is the optional text the    *)
(* classifier reads (fileName, name.text, name.getText(), text), len the    *)
(* length of the node's full text, kids what ts.forEachChild visits.        *)

\* A tree node of the output.  size and deps are optional; name is optional
\* because the classifier may hand on an undefined name.
TreeNode(name, type, size, children, deps) ==
  [name |-> name, type |-> type, size |-> size, children |-> children, deps |-> deps]

\* getNodeTypeName: the (type, name) of a syntax node.
getNodeTypeName(node) ==
  IF node.kind = SK("SourceFile") THEN <<"file", node.name>>
  ELSE IF node.kind = SK("Constructor") THEN <<"constructor", Some(<<>>)>>
  ELSE IF node.kind = SK("MethodDeclaration") THEN <<"method", node.name>>
  ELSE IF node.kind = SK("FunctionDeclaration") THEN <<"function", node.name>>
  ELSE IF node.kind = SK("InterfaceDeclaration") THEN <<"interface", node.name>>
  ELSE IF node.kind = SK("ClassDeclaration") THEN <<"class", node.name>>
  ELSE IF node.kind = SK("ModuleDeclaration") THEN <<"module", node.name>>
  ELSE IF node.kind = SK("ModuleBlock") THEN <<"module-block", Some(<<>>)>>
  ELSE IF node.kind = SK("MethodSignature") THEN <<"method", node.name>>
  ELSE IF node.kind = SK("StringLiteral") THEN <<"text", node.name>>
  ELSE <<SyntaxKind[node.kind] \o ":" \o Flat(Decimal(node.kind)), Some(<<>>)>>

\* getNodeSize: the length of the node's full text.
getNodeSize(node) == node.len

\* getNodeSummary: (type, name, size).
getNodeSummary(node) ==
  Let(getNodeTypeName(node),
      LAMBDA tn : [type |-> tn[1], name |-> tn[2], size |-> getNodeSize(node)])

\* isComposite without its second test (the expand-functions set): a variant
\* the leaf-emission property must tell from isComposite.
isCompositeNoExtra(node, cargs) == node.kind \in COMPOSITE_TSNODES

\* isComposite.
isComposite(node, cargs) ==
  IF node.kind \in COMPOSITE_TSNODES THEN TRUE
  ELSE IF cargs.expandFunctions /\ node.kind \in EXTRA_COMPOSITE_NODES THEN TRUE
  ELSE FALSE

\* The callback's first test without the modifier keywords: a variant the
\* noise property must tell from isExcluded.
isExcludedNoKeywords(node) ==
  node.kind \in EXCLUDED_TSNODES \ {SK("ExportKeyword"), SK("DefaultKeyword"), SK("DeclareKeyword")}

\* The callback's first test: a node of EXCLUDED_TSNODES is skipped.
isExcluded(node) == node.kind \in EXCLUDED_TSNODES

\* inspectSubNodes: the tree nodes of root's children, in source order.
RECURSIVE inspectSubNodes(_, _)
RECURSIVE inspectEach(_, _)
inspectEach(kids, cargs) ==
  IF kids = <<>> THEN <<>>
  ELSE
    Let(<<Head(kids), Tail(kids)>>, LAMBDA kid :
      LET node == kid[1]
          rest == inspectEach(kid[2], cargs)
      IN IF isExcluded(node) THEN rest
         ELSE
           Let(getNodeSummary(node), LAMBDA s :
             LET deep == isComposite(node, cargs)
                 children == IF deep THEN inspectSubNodes(node, cargs) ELSE <<>>
             IN IF TruthyStr(s.name) \/ deep \/ cargs.addUnnamedLeafs
                THEN <<TreeNode(s.name, s.type, Some(s.size), children, None)>> \o rest
                ELSE rest))

inspectSubNodes(root, cargs) == inspectEach(root.kids, cargs)

---------------------------------------------------------------------------
(* Directory reconstruction (src/index.ts:164-182)                         *)

\* Lines 173-174: tree.children.find(x => x.type == 'dir' && x.name == dirname),
\* as the position of the first match, if any.
findDirNever(children, dirname) == None

findDir(children, dirname) ==
  Let({ k \in 1..Len(children) : children[k].type = "dir" /\ children[k].name = dirname },
      LAMBDA found :
        IF found = {} THEN None ELSE Some(CHOOSE k \in found : \A j \in found : k <= j))

\* insertFileNode: node goes under the chain of dir nodes relpath names.
RECURSIVE insertFileNode(_, _, _)
insertFileNode(tree, node, relpath) ==
  Let(IndexOf(relpath, <<"/">>), LAMBDA i :
    LET dirname == IF i < 0 THEN None ELSE Some(Slice(relpath, 0, i))
    IN IF ~TruthyStr(dirname)
       THEN [tree EXCEPT !.children = Append(@, node)]
       ELSE
         Let(findDir(tree.children, dirname), LAMBDA dirnode :
           LET kids == IF ~TruthyObj(dirnode)
                       THEN Append(tree.children, TreeNode(dirname, "dir", None, <<>>, None))
                       ELSE tree.children
               at == IF ~TruthyObj(dirnode) THEN Len(kids) ELSE dirnode[1]
           IN [tree EXCEPT !.children =
                 [kids EXCEPT ![at] =
                    Let(<<kids[at], Slice(relpath, i + 1, Len(relpath))>>,
                        LAMBDA sub : insertFileNode(sub[1], node, sub[2]))]]))

---------------------------------------------------------------------------
(* The collaborators: file system, configuration reader, compiler, path    *)
(* The variable world holds what they answer:                              *)
(*   cargs     the parsed command line                                     *)
(*   configs   tsconfig.json path -> what ts.readConfigFile returns        *)
(*   listing   the source files on disk, in directory order                *)
(*   source    file name -> [ast, resolvedModules] as the compiler parses  *)
(*   libFiles  the default library files every program includes            *)
(*   now       the clock                                                   *)

\* ts.sys.fileExists for a configuration file.
fileExists(w, path) == path \in DOMAIN w.configs

\* ts.readConfigFile: {config, error}; a malformed or unreadable file gives
\* an error beside the configuration the reader could recover.
readConfigFile(w, path) == w.configs[path]

\* ts.parseJsonConfigFileContent: the file names, options and references
\* the configuration object stands for.
parseJsonConfigFileContent(config) ==
  [options |-> config.options, fileNames |-> config.fileNames,
   projectReferences |-> config.references]

\* glob.sync(projectDir + '**/*.{js,ts}'): the .js and .ts files under projectDir.
globSync(w, projectDir) ==
  SelectSeq(w.listing,
            LAMBDA f : /\ Len(f) > Len(projectDir)
                       /\ MatchAt(f, projectDir, 0)
                       /\ (EndsWith(f, <<".", "j", "s">>) \/ EndsWith(f, <<".", "t", "s">>)))

\* Map.prototype.get on a file's resolved-module map, then ?.resolvedFileName.
resolvedFileName(src, importPath) ==
  IF importPath \in DOMAIN src.resolvedModules
  THEN Some(src.resolvedModules[importPath]) ELSE None

\* node.moduleSpecifier of an import declaration: its last child.
moduleSpecifier(node) == node.kids[Len(node.kids)]

\* The files a source file imports, as the compiler follows them.
importsOf(w, f) ==
  LET src == w.source[f]
      RECURSIVE each(_)
      each(kids) ==
        IF kids = <<>> THEN <<>>
        ELSE
          Let(<<Head(kids), Tail(kids)>>, LAMBDA kid :
            LET node == kid[1]
                target == IF node.kind = SK("ImportDeclaration")
                             /\ moduleSpecifier(node).kind = SK("StringLiteral")
                          THEN resolvedFileName(src, moduleSpecifier(node).name[1])
                          ELSE None
            IN Let(target, LAMBDA t :
                     IF TruthyStr(t) /\ t[1] \in DOMAIN w.source THEN t ELSE <<>>)
               \o each(kid[2]))
  IN each(src.ast.kids)

\* ts.createProgram(rootNames).getSourceFiles(): the library files, then every
\* root file and every file reached through imports, each once, a file after
\* the files it imports.
\* acc is [seen, out]: the files met, and the files finished, in order.  The
\* list is walked in halves, in order, which keeps the recursion shallow.
RECURSIVE collectFiles(_, _, _)
collectFiles(w, todo, acc) ==
  IF todo = <<>> THEN acc
  ELSE IF Len(todo) = 1
  THEN
    LET f == todo[1]
    IN IF (\E k \in 1..Len(acc.seen) : acc.seen[k] = f) \/ f \notin DOMAIN w.source
       THEN acc
       ELSE
         LET sub == Let(<<importsOf(w, f), [acc EXCEPT !.seen = Append(@, f)]>>,
                        LAMBDA a : collectFiles(w, a[1], a[2]))
         IN [sub EXCEPT !.out = Append(@, f)]
  ELSE
    Let(<<SubSeq(todo, 1, Len(todo) \div 2), SubSeq(todo, Len(todo) \div 2 + 1, Len(todo))>>,
        LAMBDA half : Let(collectFiles(w, half[1], acc),
                          LAMBDA first : collectFiles(w, half[2], first)))

getSourceFiles(w, rootNames) ==
  Let(rootNames,
      LAMBDA names : w.libFiles \o collectFiles(w, names, [seen |-> <<>>, out |-> <<>>]).out)

\* The segments of an absolute path, without the empty ones.
PathSegments(path) == SelectSeq(Split(path), LAMBDA seg : seg # <<>>)

\* path.relative(from, to) for absolute paths: up from `from` to the common
\* ancestor, then down to `to`.
fspathRelative(from, to) ==
  Let(<<PathSegments(from), PathSegments(to)>>, LAMBDA p :
    LET a == p[1]
        b == p[2]
    IN Let({ n \in 0..Len(a) : n <= Len(b) /\ \A k \in 1..n : a[k] = b[k] }, LAMBDA same :
         Let(CHOOSE n \in same : \A m \in same : m <= n, LAMBDA c :
           Join([k \in 1..(Len(a) - c) |-> <<".", ".">>] \o SubSeq(b, c + 1, Len(b))))))

---------------------------------------------------------------------------
(* Configuration (src/index.ts:212-252)                                    *)

\* generateTsConfig: the glob-derived file list, the default options, no references.
generateTsConfig(w, projectDir) ==
  [fileNames |-> globSync(w, projectDir),
   projectReferences |-> Some(<<>>),
   options |-> DEFAULT_COMPILER_OPTIONS]

\* parseTsConfig: the configuration of a project directory.  The error field
\* of what readConfigFile returns is never read.
parseTsConfig(w, projectDir) ==
  Let(projectDir \o TSCONFIG_FILENAME, LAMBDA tsConfigPath :
    IF ~fileExists(w, tsConfigPath)
    THEN generateTsConfig(w, projectDir)
    ELSE parseJsonConfigFileContent(readConfigFile(w, tsConfigPath).config))

---------------------------------------------------------------------------
(* Dependencies (src/index.ts:288-314)                                     *)

\* getImports: the resolved imports of a file, relative to cargs.project.
getImports(w, file) ==
  LET src == w.source[file.name[1]]
      RECURSIVE each(_)
      each(kids) ==
        IF kids = <<>> THEN <<>>
        ELSE
          Let(<<Head(kids), Tail(kids)>>, LAMBDA kid :
            LET node == kid[1]
                rest == each(kid[2])
            IN IF node.kind # SK("ImportDeclaration") THEN rest
               ELSE IF moduleSpecifier(node).kind # SK("StringLiteral") THEN rest
               ELSE
                 LET importPath == moduleSpecifier(node).name[1]
                 IN Let(resolvedFileName(src, importPath), LAMBDA fullPath :
                      IF ~TruthyStr(fullPath) THEN rest
                      ELSE <<fspathRelative(w.cargs.project[1], fullPath[1])>> \o rest))
  IN each(file.kids)

\* getNodeDeps: string[] | null.
getNodeDeps(w, node) ==
  IF node.kind = SK("SourceFile") THEN Some(getImports(w, node)) ELSE None

---------------------------------------------------------------------------
(* parseTsProject (src/index.ts:122-162)                                   *)

\* Lines 123-124: a trailing slash is added when there is none.
normalizeDirAsGiven(projectDir) == projectDir

normalizeDir(projectDir) ==
  IF ~EndsWith(projectDir, <<"/">>) THEN projectDir \o <<"/">> ELSE projectDir

\* Line 133: projectDir.split('/').slice(-2)[0].
projectNameOf(projectDir) ==
  Let(Split(projectDir),
      LAMBDA parts : IF Len(parts) >= 2 THEN parts[Len(parts) - 1] ELSE parts[1])

\* Line 142: EXCLUDED_FILEPATHS.test(file.fileName).
isExcludedPath(fileName) == IndexOf(fileName, EXCLUDED_FILEPATHS) >= 0

\* Line 146: the file's path with the project directory taken out.
relpathOf(filepath, projectDir) == Replace(filepath, projectDir, <<>>)

\* Line 147: relpath.split('/').slice(-1)[0].
basenameOf(relpath) == Let(Split(relpath), LAMBDA parts : parts[Len(parts)])

\* Lines 149-151: the deps field of a file node; set when deps is truthy.
depsField(deps) == IF TruthyObj(deps) THEN deps ELSE None

\* Lines 145-151: the tree node of one source file.
fileNode(w, file, projectDir) ==
  Let(getNodeSummary(file), LAMBDA s :
    Let(relpathOf(s.name[1], projectDir), LAMBDA relpath :
      Let(getNodeDeps(w, file), LAMBDA deps :
        LET children == inspectSubNodes(file, w.cargs)
        IN TreeNode(Some(basenameOf(relpath)), s.type, Some(s.size), children,
                    depsField(deps)))))

\* Lines 142-152: one source file of the loop.  st is the tree being built
\* and the history of insertions.
processFile(w, fileName, projectDir, st) ==
  Let(w.source[fileName].ast, LAMBDA file :
    IF isExcludedPath(file.name[1])
    THEN st
    ELSE
      Let(relpathOf(file.name[1], projectDir), LAMBDA relpath :
        Let(fileNode(w, file, projectDir), LAMBDA node :
          [tree |-> insertFileNode(st.tree, node, relpath),
           log |-> Append(st.log, [project |-> projectDir, file |-> file.name[1],
                                   relpath |-> relpath, node |-> node])])))

\* Lines 141-153: the loop over program.getSourceFiles(), in order (walked
\* in halves, which keeps the recursion shallow).
RECURSIVE processFiles(_, _, _, _)
processFiles(w, files, projectDir, st) ==
  IF files = <<>> THEN st
  ELSE IF Len(files) = 1 THEN processFile(w, files[1], projectDir, st)
  ELSE
    Let(<<SubSeq(files, 1, Len(files) \div 2), SubSeq(files, Len(files) \div 2 + 1, Len(files))>>,
        LAMBDA half : Let(processFiles(w, half[1], projectDir, st),
                          LAMBDA first : processFiles(w, half[2], projectDir, first)))

\* Lines 138-139: the batch that starts at baseFile, compiled.
batchSourceFiles(w, fileNames, baseFile) ==
  getSourceFiles(w, Slice(fileNames, baseFile, baseFile + BATCH_FILES))

\* tsConfig.projectReferences || [].
referencesOf(tsConfig) ==
  IF TruthyObj(tsConfig.projectReferences) THEN tsConfig.projectReferences[1] ELSE <<>>

NoConfig == [fileNames |-> <<>>, projectReferences |-> None, options |-> DEFAULT_COMPILER_OPTIONS]

NoTree == TreeNode(None, "program", None, <<>>, None)

\* An activation of parseTsProject that has just been called.
Activation(projectDir) ==
  [projectDir |-> projectDir, phase |-> "enter", tsConfig |-> NoConfig,
   baseFile |-> 0, pref |-> 1, tree |-> NoTree]

top == stack[Len(stack)]

\* The innermost activation returns result (a tree or null) to its caller:
\* parseTsProject's reference loop (lines 156-157) or main.
ReturnToCaller(result) ==
  IF Len(stack) = 1
  THEN /\ stack' = <<>>
       /\ ret' = result
       /\ pc' = "returned"
  ELSE LET caller == stack[Len(stack) - 1]
           tree == IF TruthyObj(result)
                   THEN [caller.tree EXCEPT !.children = Append(@, result[1])]
                   ELSE caller.tree
       IN /\ stack' = [SubSeq(stack, 1, Len(stack) - 1) EXCEPT ![Len(stack) - 1] =
                         [caller EXCEPT !.tree = tree, !.pref = caller.pref + 1]]
          /\ UNCHANGED <<ret, pc>>

\* Lines 123-127: a project directory already in alreadyParsed gives null.
EnterVisited ==
  /\ pc = "walk" /\ stack # <<>> /\ top.phase = "enter"
  /\ normalizeDir(top.projectDir) \in alreadyParsed
  /\ ReturnToCaller(None)
  /\ pruned' = pruned + 1
  /\ UNCHANGED <<world, alreadyParsed, stdout, created, inserted>>

\* Lines 123-134: a new project directory is marked, its configuration read
\* and its program node made.
EnterNew ==
  /\ pc = "walk" /\ stack # <<>> /\ top.phase = "enter"
  /\ \E projectDir \in {normalizeDir(top.projectDir)} :
        /\ projectDir \notin alreadyParsed
        /\ alreadyParsed' = alreadyParsed \cup {projectDir}
        /\ created' = Append(created, projectDir)
        /\ stack' = [stack EXCEPT ![Len(stack)] =
                       [projectDir |-> projectDir, phase |-> "batch",
                        tsConfig |-> parseTsConfig(world, projectDir),
                        baseFile |-> 0, pref |-> 1,
                        tree |-> TreeNode(Some(projectNameOf(projectDir)), "program",
                                          None, <<>>, None)]]
  /\ UNCHANGED <<world, pc, ret, stdout, pruned, inserted>>

\* Lines 136-153: one batch is compiled and its source files inserted.
Batch ==
  /\ pc = "walk" /\ stack # <<>> /\ top.phase = "batch"
  /\ top.baseFile < Len(top.tsConfig.fileNames)
  /\ \E files \in {batchSourceFiles(world, top.tsConfig.fileNames, top.baseFile)} :
     \E st \in {processFiles(world, files, top.projectDir,
                              [tree |-> top.tree, log |-> inserted])} :
        /\ stack' = [stack EXCEPT ![Len(stack)] =
                       [top EXCEPT !.tree = st.tree, !.phase = "refs", !.pref = 1]]
        /\ inserted' = st.log
  /\ UNCHANGED <<world, pc, alreadyParsed, ret, stdout, created, pruned>>

\* Lines 155-156: the next project reference of the batch is resolved.
CallReference ==
  /\ pc = "walk" /\ stack # <<>> /\ top.phase = "refs"
  /\ top.pref <= Len(referencesOf(top.tsConfig))
  /\ stack' = Append(stack, Activation(referencesOf(top.tsConfig)[top.pref].path))
  /\ UNCHANGED <<world, pc, alreadyParsed, ret, stdout, created, pruned, inserted>>

\* Line 136: after the references, the next batch.
NextBatch ==
  /\ pc = "walk" /\ stack # <<>> /\ top.phase = "refs"
  /\ top.pref > Len(referencesOf(top.tsConfig))
  /\ stack' = [stack EXCEPT ![Len(stack)] =
                 [top EXCEPT !.baseFile = top.baseFile + BATCH_FILES, !.phase = "batch"]]
  /\ UNCHANGED <<world, pc, alreadyParsed, ret, stdout, created, pruned, inserted>>

\* Line 161: no batch is left; the tree is returned.
Return ==
  /\ pc = "walk" /\ stack # <<>> /\ top.phase = "batch"
  /\ top.baseFile >= Len(top.tsConfig.fileNames)
  /\ ReturnToCaller(Some(top.tree))
  /\ UNCHANGED <<world, alreadyParsed, stdout, created, pruned, inserted>>

---------------------------------------------------------------------------
(* main (src/index.ts:332-350)                                             *)

DEFAULT_COLORS ==
  [t \in {"program", "dir", "file", "module", "interface", "class", "constructor",
          "method", "function"} |->
     CASE t = "program" -> "#f0f" [] t = "dir" -> "#0ff" [] t = "file" -> "#00f"
       [] t = "module" -> "#00c" [] t = "interface" -> "#0c0" [] t = "class" -> "#0f0"
       [] t = "constructor" -> "#800" [] t = "method" -> "#c00" [] t = "function" -> "#f00"]

\* Lines 333-334: without a project, the usage text is written and the process exits.
MainHelp ==
  /\ pc = "start"
  /\ ~TruthyStr(world.cargs.project)
  /\ stdout' = Append(stdout, [format |-> "help"])
  /\ pc' = "exited"
  /\ UNCHANGED <<world, stack, alreadyParsed, ret, created, pruned, inserted>>

\* Lines 336-337: parseTsProject(pdir) is called with a fresh set.
MainCall ==
  /\ pc = "start"
  /\ TruthyStr(world.cargs.project)
  /\ stack' = <<Activation(world.cargs.project[1])>>
  /\ alreadyParsed' = {}
  /\ pc' = "walk"
  /\ UNCHANGED <<world, ret, stdout, created, pruned, inserted>>

\* Lines 338-347: the envelope is written.
MainOutput ==
  /\ pc = "returned"
  /\ stdout' = Append(stdout,
       [format |-> "vast", version |-> "1.0.0", source |-> world.cargs.project[1],
        colors |-> DEFAULT_COLORS, timestamp |-> world.now, vast |-> ret[1]])
  /\ pc' = "done"
  /\ UNCHANGED <<world, stack, alreadyParsed, ret, created, pruned, inserted>>

Next ==
  \/ MainHelp
  \/ MainCall
  \/ EnterVisited
  \/ EnterNew
  \/ Batch
  \/ CallReference
  \/ NextBatch
  \/ Return
  \/ MainOutput

---------------------------------------------------------------------------
(* The inputs: command lines, file systems and programs                    *)

\* Bounds of the explored inputs.
MaxRefs == 2        \* project references of the root project
MaxExtra == 1       \* files beyond one full batch
MaxPaths == 3       \* files of a project with nested directories
MaxAstNodes == 2    \* syntax nodes below a source file
MaxImports == 2     \* import declarations of a source file

\* A function from its graph, a set of <<key, value>> pairs.
MapOf(pairs) == [k \in {p[1] : p \in pairs} |-> (CHOOSE p \in pairs : p[1] = k)[2]]

\* A function from a sequence of <<key, value>> pairs with distinct keys.
RECURSIVE MapOfSeq(_)
MapOfSeq(pairs) ==
  IF pairs = <<>> THEN MapOf({})
  ELSE IF Len(pairs) = 1 THEN pairs[1][1] :> pairs[1][2]
  ELSE LET half == Len(pairs) \div 2
       IN MapOfSeq(SubSeq(pairs, 1, half)) @@ MapOfSeq(SubSeq(pairs, half + 1, Len(pairs)))

\* The sequences over S of length at most n.
SeqUpTo(S, n) == UNION {[1..k -> S] : k \in 0..n}

\* The sequences over S of length at most n without a repeated element.
DistinctSeqUpTo(S, n) == {q \in SeqUpTo(S, n) : \A i, j \in 1..Len(q) : i # j => q[i] # q[j]}

Abs(segs) == <<"/">> \o Join(segs)

\* A directory path written with its trailing slash.
Dir(path) == path \o <<"/">>

SegNodeModules == <<"n", "o", "d", "e", "_", "m", "o", "d", "u", "l", "e", "s">>

Ts(stem) == stem \o <<".", "t", "s">>

Node(kind, name, kids) ==
  [kind |-> SK(kind), name |-> name, len |-> 1 + Len(kids), kids |-> kids]

EndOfFile == Node("EndOfFileToken", None, <<>>)

ImportOf(specifier) == Node("ImportDeclaration", None, <<specifier>>)

StringLit(text) == Node("StringLiteral", Some(text), <<>>)

\* A parsed source file: its statements, then the end-of-file token.
SourceOf(path, statements, resolved) ==
  [ast |-> Node("SourceFile", Some(path), statements \o <<EndOfFile>>),
   resolvedModules |-> resolved]

NoModules == MapOf({})

LibFile == Abs(<<SegNodeModules, <<"t">>, <<"l", ".", "d", ".", "t", "s">>>>)

Cargs(project, addUnnamedLeafs, expandFunctions) ==
  [debug |-> FALSE, project |-> project, addUnnamedLeafs |-> addUnnamedLeafs,
   expandFunctions |-> expandFunctions]

\* What readConfigFile returns for a configuration file.
ConfigOf(fileNames, references, error) ==
  [config |-> [options |-> [composite |-> TRUE], fileNames |-> fileNames,
               references |-> references],
   error |-> error]

ConfigPath(dir) == Dir(dir) \o TSCONFIG_FILENAME

\* A world from its command line, configurations and source files (a
\* sequence of <<path, source>> pairs, listed on disk in the order `listing`).
World(cargs, configs, listing, sources) ==
  [cargs |-> cargs, configs |-> MapOf(configs), listing |-> listing,
   source |-> MapOfSeq(sources \o <<<<LibFile, SourceOf(LibFile, <<>>, NoModules)>>>>),
   libFiles |-> <<LibFile>>, now |-> 0]

(* Project graphs: three projects /w/a (the root), /w/b and /w/c, each with *)
(* no file or one, a configuration that is well-formed, malformed or        *)
(* missing, and references that may repeat, differ by a trailing slash or   *)
(* close a cycle.                                                           *)
DirA == Abs(<<<<"w">>, <<"a">>>>)
DirB == Abs(<<<<"w">>, <<"b">>>>)
DirC == Abs(<<<<"w">>, <<"c">>>>)

MainFile(dir) == Dir(dir) \o Ts(<<"m">>)

Ref(path) == [path |-> path]

WalkProject(dir, hasFile, status, refs) ==
  [dir |-> dir, files |-> IF hasFile THEN <<MainFile(dir)>> ELSE <<>>,
   status |-> status, refs |-> refs]

\* The files of a sequence of projects, in order.
RECURSIVE FilesOfProjects(_)
FilesOfProjects(projects) ==
  IF projects = <<>> THEN <<>> ELSE Head(projects).files \o FilesOfProjects(Tail(projects))

WalkWorldOf(projects, rootArg) ==
  World(Cargs(Some(rootArg), FALSE, FALSE),
        { <<ConfigPath(projects[i].dir),
            ConfigOf(projects[i].files, Some(projects[i].refs),
                     IF projects[i].status = "malformed" THEN Some("diagnostic") ELSE None)>> :
          i \in {j \in DOMAIN projects : projects[j].status # "missing"} },
        FilesOfProjects(projects),
        [i \in DOMAIN FilesOfProjects(projects) |->
           <<FilesOfProjects(projects)[i], SourceOf(FilesOfProjects(projects)[i], <<>>, NoModules)>>])

WalkWorlds ==
  { WalkWorldOf(<<WalkProject(DirA, fa, sa, ra), WalkProject(DirB, fb, "ok", rb),
                  WalkProject(DirC, fc, "ok", rc)>>, Dir(DirA)) :
      fa \in BOOLEAN, fb \in BOOLEAN, fc \in BOOLEAN,
      sa \in {"ok", "malformed", "missing"},
      ra \in SeqUpTo({Ref(DirB), Ref(Dir(DirB)), Ref(DirC)}, MaxRefs),
      rb \in {<<>>, <<Ref(DirA)>>, <<Ref(DirC)>>, <<Ref(Dir(DirC))>>},
      rc \in {<<>>, <<Ref(DirA)>>, <<Ref(DirB)>>} }

(* File lists around the batch size: project /w/a with files f1.ts .. fn.ts *)
(* and imports among the first, the second and the last of them; it may     *)
(* reference project /w/b, which has one file.                              *)
NumberedFile(i) == Dir(DirA) \o Ts(<<"f">> \o Decimal(i))

NumberedSpecifier(i) == <<".", "/", "f">> \o Decimal(i)

\* The files file i imports, in the order of its import declarations; edges
\* are the <<importer, imported>> pairs.
ImportedBy(i, n, edges) ==
  SelectSeq(IF n > 2 THEN <<1, 2, n>> ELSE [j \in 1..n |-> j],
            LAMBDA j : <<i, j>> \in edges)

NumberedSource(i, n, edges) ==
  LET targets == ImportedBy(i, n, edges)
  IN SourceOf(NumberedFile(i),
              [k \in 1..Len(targets) |-> ImportOf(StringLit(NumberedSpecifier(targets[k])))],
              MapOf({<<NumberedSpecifier(targets[k]), NumberedFile(targets[k])>> :
                     k \in 1..Len(targets)}))

BatchWorldOf(n, edges, refs) ==
  World(Cargs(Some(DirA), FALSE, FALSE),
        { <<ConfigPath(DirA), ConfigOf([i \in 1..n |-> NumberedFile(i)], Some(refs), None)>>,
          <<ConfigPath(DirB), ConfigOf(<<MainFile(DirB)>>, None, None)>> },
        [i \in 1..n |-> NumberedFile(i)] \o <<MainFile(DirB)>>,
        [i \in 1..n |-> <<NumberedFile(i), NumberedSource(i, n, edges)>>]
        \o << <<MainFile(DirB), SourceOf(MainFile(DirB), <<>>, NoModules)>> >>)

BatchWorlds ==
  UNION { { BatchWorldOf(n, edges, refs) :
              edges \in { es \in SUBSET {<<1, 2>>, <<1, n>>, <<n, 1>>} :
                            \A e \in es : e[1] \in 1..n /\ e[2] \in 1..n },
              refs \in {<<>>, <<Ref(DirB)>>} } :
          n \in (1..3) \cup (BATCH_FILES..(BATCH_FILES + MaxExtra)) }

(* Nested directories: project /p whose compiled files lie in its           *)
(* directories, in node_modules, or outside the project.                    *)
DirP == Abs(<<<<"p">>>>)

PathUniverse ==
  << Abs(<<<<"p">>, Ts(<<"x">>)>>),
    Abs(<<<<"p">>, Ts(<<"y">>)>>),
    Abs(<<<<"p">>, <<"a">>, Ts(<<"x">>)>>),
    Abs(<<<<"p">>, <<"a">>, Ts(<<"y">>)>>),
    Abs(<<<<"p">>, <<"a">>, <<"b">>, Ts(<<"x">>)>>),
    Abs(<<<<"p">>, <<"b">>, Ts(<<"x">>)>>),
    Abs(<<<<"p">>, <<"p">>, Ts(<<"x">>)>>),
    Abs(<<<<"p">>, SegNodeModules, <<"m">>, Ts(<<"x">>)>>),
    Abs(<<<<"q">>, Ts(<<"x">>)>>),
    Abs(<<<<"q">>, <<"p">>, Ts(<<"x">>)>>) >>

PathWorldOf(fileNames) ==
  World(Cargs(Some(DirP), FALSE, FALSE),
        { <<ConfigPath(DirP), ConfigOf(fileNames, None, None)>> },
        fileNames,
        [i \in DOMAIN PathUniverse |->
           <<PathUniverse[i], SourceOf(PathUniverse[i], <<>>, NoModules)>>])

PathWorlds ==
  { PathWorldOf(fileNames) :
      fileNames \in DistinctSeqUpTo({PathUniverse[i] : i \in DOMAIN PathUniverse}, MaxPaths) }

(* Syntax trees: project /p with the one file /p/x.ts, whose statements are *)
(* any forest of at most MaxAstNodes nodes, under every flag combination.   *)
TokenKinds ==
  { "EndOfFileToken", "StringLiteral", "Identifier", "DefaultKeyword", "ExportKeyword",
    "DeclareKeyword" }

AlwaysNamedKinds ==
  { "MethodSignature", "MethodDeclaration", "InterfaceDeclaration", "ModuleDeclaration" }

MaybeNamedKinds == { "FunctionDeclaration", "ClassDeclaration" }

\* The <<kind, name>> pairs a syntax node below a source file may have.
NodeForms ==
  { <<SyntaxKind[k], None>> :
      k \in { j \in 1..Len(SyntaxKind) :
                SyntaxKind[j] \notin AlwaysNamedKinds \cup {"SourceFile", "StringLiteral"} } }
  \cup { <<kind, Some(<<"n">>)>> : kind \in AlwaysNamedKinds \cup MaybeNamedKinds }
  \cup { <<"StringLiteral", Some(<<>>)>>, <<"StringLiteral", Some(<<"n">>)>> }

\* The <<kind, name>> pairs of the nodes below or after the first statement.
InnerForms ==
  { <<"PropertyDeclaration", None>>, <<"Identifier", None>>, <<"IfStatement", None>>,
    <<"Block", None>>, <<"Constructor", None>>, <<"MethodDeclaration", Some(<<"n">>)>>,
    <<"ClassDeclaration", Some(<<"n">>)>> }

\* A module specifier no file resolves.
SpecifierFs == <<"f", "s">>

\* A syntax node; an import declaration has its module specifier as last child.
NodeOfForm(form, sub) ==
  Node(form[1], form[2],
       IF form[1] = "ImportDeclaration" THEN sub \o <<StringLit(SpecifierFs)>> ELSE sub)

\* The forests of exactly n nodes with the given forms; a token has no child.
RECURSIVE Forests(_, _)
Forests(n, forms) ==
  IF n = 0 THEN {<<>>}
  ELSE UNION { { <<NodeOfForm(form, sub)>> \o rest :
                   form \in {f \in forms : i = 0 \/ f[1] \notin TokenKinds},
                   sub \in Forests(i, InnerForms),
                   rest \in Forests(n - 1 - i, InnerForms) } :
               i \in 0..(n - 1) }

\* The statements of the file: a first statement of any form, with inner
\* nodes below and after it.
AstStatements == UNION {Forests(n, NodeForms) : n \in 0..MaxAstNodes}

FileX == Abs(<<<<"p">>, Ts(<<"x">>)>>)

AstWorldOf(statements, addUnnamedLeafs, expandFunctions) ==
  World(Cargs(Some(DirP), addUnnamedLeafs, expandFunctions),
        { <<ConfigPath(DirP), ConfigOf(<<FileX>>, None, None)>> },
        <<FileX>>,
        << <<FileX, SourceOf(FileX, statements, NoModules)>> >>)

AstWorlds ==
  { AstWorldOf(statements, addUnnamedLeafs, expandFunctions) :
      statements \in AstStatements,
      addUnnamedLeafs \in BOOLEAN, expandFunctions \in BOOLEAN }

(* Imports: /p/x.ts with at most MaxImports statements, each an import that *)
(* resolves inside the project, resolves outside it, does not resolve or    *)
(* has no string specifier, or an interface declaration.                    *)
FileY == Abs(<<<<"p">>, Ts(<<"y">>)>>)
FileZ == Abs(<<<<"q">>, Ts(<<"z">>)>>)

SpecifierY == <<".", "/", "y">>
SpecifierZ == <<".", ".", "/", "q", "/", "z">>

ImportForms ==
  { ImportOf(StringLit(SpecifierY)), ImportOf(StringLit(SpecifierZ)),
    ImportOf(StringLit(SpecifierFs)), ImportOf(Node("Identifier", None, <<>>)),
    Node("InterfaceDeclaration", Some(<<"n">>), <<>>) }

ImportWorldOf(statements, project) ==
  World(Cargs(Some(project), FALSE, FALSE),
        { <<ConfigPath(DirP), ConfigOf(<<FileX>>, None, None)>> },
        <<FileX, FileY>>,
        << <<FileX, SourceOf(FileX, statements,
                             MapOf({<<SpecifierY, FileY>>, <<SpecifierZ, FileZ>>}))>>,
           <<FileY, SourceOf(FileY, <<>>, NoModules)>>,
           <<FileZ, SourceOf(FileZ, <<>>, NoModules)>> >>)

ImportWorlds ==
  { ImportWorldOf(statements, project) :
      statements \in SeqUpTo(ImportForms, MaxImports),
      project \in {DirP, Dir(DirP)} }

\* The command line without --project.
HelpWorld == World(Cargs(None, FALSE, FALSE), {}, <<>>, <<>>)

\* Projects /w/a and /w/b reference each other.
CycleWorld ==
  WalkWorldOf(<<WalkProject(DirA, TRUE, "ok", <<Ref(DirB)>>),
                WalkProject(DirB, TRUE, "ok", <<Ref(DirA)>>),
                WalkProject(DirC, FALSE, "ok", <<>>)>>, DirA)

\* The runs every specification includes.
BaseWorlds == {HelpWorld, CycleWorld}

---------------------------------------------------------------------------
(* The specifications: the program, started in each family of inputs       *)

InitIn(worlds) ==
  /\ world \in worlds \cup BaseWorlds
  /\ pc = "start"
  /\ stack = <<>>
  /\ alreadyParsed = {}
  /\ ret = None
  /\ stdout = <<>>
  /\ created = <<>>
  /\ pruned = 0
  /\ inserted = <<>>

Init == InitIn(WalkWorlds \cup BatchWorlds)

Spec == Init /\ [][Next]_vars

\* The program is one sequential process: a step that can be taken is taken.
FairSpec == Spec /\ WF_vars(Next)

InitPaths == InitIn(PathWorlds)

SpecPaths == InitPaths /\ [][Next]_vars

InitAst == InitIn(AstWorlds)

SpecAst == InitAst /\ [][Next]_vars

InitImports == InitIn(ImportWorlds)

SpecImports == InitImports /\ [][Next]_vars

---------------------------------------------------------------------------
(* What the properties below read                                          *)

\* A directory path with its trailing slash.
Canonical(dir) ==
  IF Len(dir) > 0 /\ dir[Len(dir)] = "/" THEN dir ELSE dir \o <<"/">>

\* The trees under construction and the returned tree, each with its project.
LiveTrees ==
  { [project |-> stack[i].projectDir, tree |-> stack[i].tree] :
      i \in {j \in DOMAIN stack : stack[j].phase # "enter"} }
  \cup (IF ret # None /\ created # <<>>
        THEN {[project |-> created[1], tree |-> ret[1]]} ELSE {})

\* Every node of a tree.
RECURSIVE NodesOf(_)
NodesOf(t) == {t} \cup UNION {NodesOf(t.children[k]) : k \in DOMAIN t.children}

\* The number of program nodes of a tree.
ProgramNodeCount(t) == Cardinality({n \in NodesOf(t) : n.type = "program"})

\* How often x occurs in a sequence.
CountIn(seq, x) == Cardinality({i \in DOMAIN seq : seq[i] = x})

\* The entries of the insertion history that belong to a project.
InsertedFor(project) == SelectSeq(inserted, LAMBDA e : e.project = project)

\* The projects a project's configuration file references.
ConfiguredRefs(w, dir) ==
  LET path == Canonical(dir) \o TSCONFIG_FILENAME
  IN IF path \in DOMAIN w.configs /\ w.configs[path].config.references # None
     THEN { Canonical(w.configs[path].config.references[1][k].path) :
              k \in DOMAIN w.configs[path].config.references[1] }
     ELSE {}

\* The projects reachable from a set of projects through references.
RECURSIVE ReachableFrom(_, _)
ReachableFrom(w, dirs) ==
  LET more == dirs \cup UNION {ConfiguredRefs(w, d) : d \in dirs}
  IN IF more = dirs THEN dirs ELSE ReachableFrom(w, more)

---------------------------------------------------------------------------
(* C1: on any finite reference graph, cycles and diamonds included, the    *)
(* walk ends, no project directory (trailing slash normalised) is given a  *)
(* program node twice, the output holds one program node per directory so  *)
(* marked, and a call on a directory already marked returns null and adds  *)
(* nothing.                                                                *)
C1_NoProjectTwice ==
  \A i, j \in DOMAIN created : i # j => Canonical(created[i]) # Canonical(created[j])

C1_PrunedAddsNothing ==
  pruned' = pruned + 1 =>
    /\ created' = created /\ inserted' = inserted /\ alreadyParsed' = alreadyParsed
    /\ Len(stack') = Len(stack) - 1
    /\ Len(stack') > 0
    /\ stack'[Len(stack')].tree = stack[Len(stack')].tree

C1_CycleSafe ==
  /\ [](C1_NoProjectTwice /\ (pc = "done" => ProgramNodeCount(ret[1]) = Len(created)))
  /\ [][C1_PrunedAddsNothing]_vars
  /\ <>(pc \in {"done", "exited"})

C1_Witness ==
  /\ pc = "done" /\ pruned > 0
  /\ Canonical(DirB) \in ConfiguredRefs(world, DirA)
  /\ Canonical(DirA) \in ConfiguredRefs(world, DirB)
  /\ Len(created) >= 2

(* C2: when the walk is done, every project reachable from the root        *)
(* through references has been given its subtree exactly once, whatever    *)
(* the length of the referencing project's file list.                      *)
C2_EveryReferenceResolved ==
  pc = "done" =>
    LET reachable == ReachableFrom(world, {Canonical(world.cargs.project[1])})
    IN /\ \A d \in reachable : CountIn([k \in DOMAIN created |-> Canonical(created[k])], d) = 1
       /\ ProgramNodeCount(ret[1]) = Cardinality(reachable)

(* C5: batching equivalence: the file subtrees a project was given are the *)
(* file subtrees of one compile of its whole file list: same files, same   *)
(* multiplicity, same order, same content.                                 *)
OneCompile(w, project) ==
  LET files == SelectSeq(getSourceFiles(w, parseTsConfig(w, project).fileNames),
                         LAMBDA f : ~isExcludedPath(f))
  IN [k \in DOMAIN files |-> fileNode(w, w.source[files[k]].ast, project)]

C5_BatchingEquivalence ==
  pc = "done" =>
    \A k \in DOMAIN created :
      [i \in DOMAIN InsertedFor(created[k]) |-> InsertedFor(created[k])[i].node]
        = OneCompile(world, created[k])

(* C8: a project whose tsconfig.json exists but is malformed or unreadable *)
(* stops the run: no file list is derived from it and nothing is written.  *)
(* A project without tsconfig.json gets the glob-derived file list, the    *)
(* default options and no references.                                      *)
C8_MalformedConfigIsFatal ==
  /\ \A k \in DOMAIN created :
       LET path == created[k] \o TSCONFIG_FILENAME
       IN (path \in DOMAIN world.configs /\ world.configs[path].error # None) =>
            /\ stdout = <<>>
            /\ pc # "done"
            /\ \A i \in DOMAIN stack :
                 stack[i].projectDir = created[k] => stack[i].tsConfig.fileNames = <<>>
  /\ \A i \in DOMAIN stack :
       (stack[i].phase # "enter"
        /\ (stack[i].projectDir \o TSCONFIG_FILENAME) \notin DOMAIN world.configs) =>
         stack[i].tsConfig =
           [fileNames |-> SelectSeq(world.listing,
                            LAMBDA f : /\ SubSeq(f, 1, Len(stack[i].projectDir)) = stack[i].projectDir
                                       /\ SubSeq(f, Len(f) - 2, Len(f)) \in
                                            {<<".", "t", "s">>, <<".", "j", "s">>}),
            projectReferences |-> Some(<<>>),
            options |-> DEFAULT_COMPILER_OPTIONS]

---------------------------------------------------------------------------
(* Directory reconstruction and paths                                      *)

\* The segments of a path, cut at each '/'.
RECURSIVE SegmentsOf(_)
SegmentsOf(path) ==
  LET cuts == {k \in DOMAIN path : path[k] = "/"}
  IN IF cuts = {} THEN <<path>>
     ELSE LET k == CHOOSE c \in cuts : \A d \in cuts : c <= d
          IN <<SubSeq(path, 1, k - 1)>> \o SegmentsOf(SubSeq(path, k + 1, Len(path)))

\* A relative path: no segment of it is empty.
IsRelativePath(path) == \A k \in DOMAIN SegmentsOf(path) : SegmentsOf(path)[k] # <<>>

\* No node of the tree has two dir children of one name.
NoDuplicateDirs(t) ==
  \A n \in NodesOf(t) :
    \A i, j \in DOMAIN n.children :
      (i # j /\ n.children[i].type = "dir" /\ n.children[j].type = "dir")
        => n.children[i].name # n.children[j].name

\* The node the chain of dir nodes named dirs leads to, when at each level
\* exactly one dir child has the name.
RECURSIVE Descend(_, _)
Descend(t, dirs) ==
  IF dirs = <<>> THEN Some(t)
  ELSE LET named == {k \in DOMAIN t.children :
                       t.children[k].type = "dir" /\ t.children[k].name = Some(dirs[1])}
       IN IF Cardinality(named) # 1 THEN None
          ELSE Descend(t.children[CHOOSE k \in named : TRUE], Tail(dirs))

\* Whether the file node is a child of the node the chain dirs leads to.
FileUnder(t, dirs, node) ==
  /\ Descend(t, dirs) # None
  /\ \E k \in DOMAIN Descend(t, dirs)[1].children : Descend(t, dirs)[1].children[k] = node

(* C3: in every tree, at every moment, no node has two sibling dir         *)
(* children of one name, and every file inserted under a relative path is  *)
(* a child of the one chain of dir nodes its directories name; so two      *)
(* files that share a directory prefix share its chain.                    *)
C3_OneDirPerPrefix ==
  \A live \in LiveTrees :
    /\ NoDuplicateDirs(live.tree)
    /\ \A k \in DOMAIN InsertedFor(live.project) :
         LET e == InsertedFor(live.project)[k]
             segs == SegmentsOf(e.relpath)
         IN IsRelativePath(e.relpath) =>
              FileUnder(live.tree, SubSeq(segs, 1, Len(segs) - 1), e.node)

C3_Witness ==
  /\ pc = "done"
  /\ \E i, j \in DOMAIN inserted :
       /\ i # j
       /\ IsRelativePath(inserted[i].relpath) /\ IsRelativePath(inserted[j].relpath)
       /\ Len(SegmentsOf(inserted[i].relpath)) = 2
       /\ Len(SegmentsOf(inserted[j].relpath)) = 3
       /\ SegmentsOf(inserted[i].relpath)[1] = SegmentsOf(inserted[j].relpath)[1]
       /\ FileUnder(ret[1], SubSeq(SegmentsOf(inserted[j].relpath), 1, 2), inserted[j].node)

\* The paths of the file nodes reached from a list of children through dir
\* nodes: the dir names and the file name, joined with '/'.
RECURSIVE FilePathsUnder(_, _)
FilePathsUnder(children, prefix) ==
  IF children = <<>> THEN <<>>
  ELSE LET n == Head(children)
       IN (IF n.type = "file" THEN <<prefix \o n.name[1]>>
           ELSE IF n.type = "dir"
           THEN FilePathsUnder(n.children, prefix \o n.name[1] \o <<"/">>)
           ELSE <<>>)
          \o FilePathsUnder(Tail(children), prefix)

(* C4: path round trip: when the walk is done, the paths of the root       *)
(* project's file nodes are, file for file, the paths of its inserted      *)
(* source files relative to the project directory, wherever the files lie, *)
(* and every file node's name is one segment.                              *)
C4_PathRoundTrip ==
  pc = "done" =>
    LET files == InsertedFor(created[1])
        relative == [k \in DOMAIN files |-> fspathRelative(created[1], files[k].file)]
        paths == FilePathsUnder(ret[1].children, <<>>)
    IN /\ Len(paths) = Len(files)
       /\ \A k \in DOMAIN files : CountIn(paths, relative[k]) = CountIn(relative, relative[k])
       /\ \A k \in DOMAIN files : Len(SegmentsOf(files[k].node.name[1])) = 1

---------------------------------------------------------------------------
(* Dependencies                                                            *)

\* The targets of the import declarations of a file that have a string
\* specifier with an entry in the resolved-module map, in source order.
ResolvableImports(w, fileName) ==
  LET src == w.source[fileName]
      imports == SelectSeq(src.ast.kids,
                   LAMBDA n : /\ SyntaxKind[n.kind] = "ImportDeclaration"
                              /\ SyntaxKind[n.kids[Len(n.kids)].kind] = "StringLiteral"
                              /\ n.kids[Len(n.kids)].name[1] \in DOMAIN src.resolvedModules)
  IN [k \in DOMAIN imports |-> src.resolvedModules[imports[k].kids[Len(imports[k].kids)].name[1]]]

(* C7: a file node has a deps field exactly when the file has a resolvable *)
(* import, and then deps holds one entry per resolvable import, in source  *)
(* order.                                                                  *)
C7_DepsOnlyWhenResolvable ==
  \A k \in DOMAIN inserted :
    LET deps == inserted[k].node.deps
        targets == ResolvableImports(world, inserted[k].file)
    IN /\ deps # None <=> targets # <<>>
       /\ deps # None =>
            deps[1] = [i \in DOMAIN targets |->
                         fspathRelative(world.cargs.project[1], targets[i])]

---------------------------------------------------------------------------
(* Syntax trees                                                            *)

\* The kinds the callback of inspectSubNodes skips.
SkippedKinds ==
  { "EndOfFileToken", "ImportDeclaration", "TypeAliasDeclaration", "Decorator",
    "Identifier", "IndexSignature", "PropertySignature", "ExportKeyword",
    "DefaultKeyword", "DeclareKeyword", "HeritageClause", "PropertyDeclaration",
    "TypeParameter", "ExportAssignment" }

\* Plain statement/expression, conditional statement, call signature.
StatementKinds == {"VariableStatement", "ExpressionStatement", "IfStatement", "CallSignature"}

\* The noise categories as the documentation lists them.
ListedNoiseKinds == SkippedKinds \cup StatementKinds

CompositeKinds ==
  {"ModuleDeclaration", "ModuleBlock", "ClassDeclaration", "InterfaceDeclaration"}

ExtendedCompositeKinds ==
  { "WhileStatement", "ForInStatement", "ForOfStatement", "ForStatement",
    "ExpressionStatement", "CallExpression", "FunctionExpression", "ArrowFunction",
    "FunctionDeclaration", "Block" }

\* The type a tree node of one of the kinds would have.
TypesOfKinds(kinds) ==
  { getNodeTypeName([kind |-> k, name |-> None, len |-> 1, kids |-> <<>>])[1] :
      k \in {j \in DOMAIN SyntaxKind : SyntaxKind[j] \in kinds} }

\* The types of the tree nodes of a list of children, at any depth.
TypesIn(children) ==
  UNION { {n.type : n \in NodesOf(children[k])} : k \in DOMAIN children }

\* A list of syntax nodes without the nodes of the kinds, at any depth, and
\* without what is below them.
RECURSIVE Without(_, _)
Without(kids, kinds) ==
  IF kids = <<>> THEN <<>>
  ELSE (IF SyntaxKind[Head(kids).kind] \in kinds THEN <<>>
        ELSE <<[Head(kids) EXCEPT !.kids = Without(@, kinds)]>>)
       \o Without(Tail(kids), kinds)

\* Whether, for a file, no node of the kinds was emitted and nothing below
\* such a node was visited: the file's children are those of the file
\* without these nodes.
NeverEmitted(e, kinds) ==
  LET ast == world.source[e.file].ast
  IN /\ TypesIn(e.node.children) \cap TypesOfKinds(kinds) = {}
     /\ e.node.children = inspectSubNodes([ast EXCEPT !.kids = Without(@, kinds)], world.cargs)

C9_TypesAreDeclared ==
  \A live \in LiveTrees : \A n \in NodesOf(live.tree) : n.type \in NodeType

\* The leaf-emission policy, on a list of syntax nodes in source order.
RECURSIVE EmissionPolicy(_, _)
EmissionPolicy(kids, cargs) ==
  IF kids = <<>> THEN <<>>
  ELSE
    LET child == Head(kids)
        kind == SyntaxKind[child.kind]
        classified == getNodeSummary(child)
        named == classified.name # None /\ classified.name[1] # <<>>
        composite == \/ kind \in CompositeKinds
                     \/ cargs.expandFunctions /\ kind \in ExtendedCompositeKinds
        emitted == kind \notin SkippedKinds /\ (named \/ composite \/ cargs.addUnnamedLeafs)
    IN (IF emitted
        THEN <<TreeNode(classified.name, classified.type, Some(classified.size),
                        IF composite THEN EmissionPolicy(child.kids, cargs) ELSE <<>>,
                        None)>>
        ELSE <<>>)
       \o EmissionPolicy(Tail(kids), cargs)

(* C10: the children of every file node are what the leaf-emission policy   *)
(* gives: a child outside the skipped kinds is emitted iff it is named, or  *)
(* composite, or add-unnamed-leafs is on; a composite child has the         *)
(* policy's result on its own children, any other none.                     *)
C10_LeafEmissionPolicy ==
  \A k \in DOMAIN inserted :
    inserted[k].node.children =
      EmissionPolicy(world.source[inserted[k].file].ast.kids, world.cargs)

C10_Witness ==
  /\ pc = "done"
  /\ world.cargs.expandFunctions /\ ~world.cargs.addUnnamedLeafs
  /\ \E k \in DOMAIN inserted :
       /\ Len(inserted[k].node.children) = 1
       /\ inserted[k].node.children[1].type \in TypesOfKinds({"Block"})
       /\ Len(inserted[k].node.children[1].children) = 1
       /\ Len(world.source[inserted[k].file].ast.kids[1].kids) = 1
       /\ SyntaxKind[world.source[inserted[k].file].ast.kids[1].kind] = "Block"

====
